---- MODULE Spec2Model ----
(***************************************************************************)
(* Model of check.py: a Firefox session-recovery inspector.                *)
(*   line 8      frame decode (skip 8-byte magic, 4-byte LE size, LZ4)      *)
(*   line 9      json.loads                                                *)
(*   lines 12-19 reporter: per window a delimiter, the groups rendering,   *)
(*               a blank line, up to five tab lines and a total line.      *)
(* Text is a sequence of one-character strings.  JSON values whose dynamic *)
(* type the script dispatches on (the document root, `groups`, `group`)    *)
(* are tagged records [t |-> "null" | "bool" | "int" | "str" | "list" |     *)
(* "dict"]; mappings with optional keys are records whose DOMAIN holds the *)
(* keys that are present.                                                  *)
(***************************************************************************)
EXTENDS Integers, Sequences, FiniteSets, TLC

(* ---------------- program constants ---------------- *)
MagicLen == 8
HeaderLen == 12
Indent == 2
GroupsCut == 2000
TabLimit == 5
UrlCut == 80

(* ---------------- bounds of the model ---------------- *)
MaxTabs == 6
MaxWindows == 2
MaxEntries == 2
MaxIndex == 3
MaxOver == 1
MaxPayload == 3

(* ---------------- Python primitives ---------------- *)
Min(a, b) == IF a < b THEN a ELSE b

\* s[lo:hi] for lo, hi >= 0: both ends are clamped to len(s), never an error
PySlice(s, lo, hi) == SubSeq(s, Min(lo, Len(s)) + 1, Min(hi, Len(s)))

\* variant: a negative index is out of range
PyIndexOK_NoWrap(s, k) == k >= 0 /\ k < Len(s)

\* s[k] raises IndexError unless -len(s) <= k < len(s)
PyIndexOK(s, k) == k >= 0 - Len(s) /\ k < Len(s)

\* s[k] for an index in range: a negative k counts from the end
PyItem(s, k) == IF k >= 0 THEN s[k + 1] ELSE s[Len(s) + k + 1]

\* d.get(k, dflt)
PyGet(d, k, dflt) == IF k \in DOMAIN d THEN d[k] ELSE dflt

\* int.from_bytes(b, 'little')
RECURSIVE FromBytesLE(_)
FromBytesLE(b) == IF b = <<>> THEN 0 ELSE b[1] + 256 * FromBytesLE(Tail(b))

Digit(d) == <<"0", "1", "2", "3", "4", "5", "6", "7", "8", "9">>[d + 1]

\* str(n) of an integer
RECURSIVE NatStr(_)
NatStr(n) == IF n < 10 THEN <<Digit(n)>> ELSE NatStr(n \div 10) \o <<Digit(n % 10)>>

IntStr(n) == IF n < 0 THEN <<"-">> \o NatStr(0 - n) ELSE NatStr(n)

\* " " * n
Spaces(n) == [k \in 1..n |-> " "]

(* ---------------- json.dumps(value, indent=2) ---------------- *)
EscChar(c) ==
    IF c = "\"" THEN <<"\\", "\"">>
    ELSE IF c = "\\" THEN <<"\\", "\\">>
    ELSE IF c = "\n" THEN <<"\\", "n">>
    ELSE <<c>>

RECURSIVE Escape(_)
Escape(s) ==
    IF Len(s) = 0 THEN <<>>
    ELSE IF Len(s) = 1 THEN EscChar(s[1])
    ELSE LET h == Len(s) \div 2
         IN Escape(SubSeq(s, 1, h)) \o Escape(SubSeq(s, h + 1, Len(s)))

JsonStr(s) == <<"\"">> \o Escape(s) \o <<"\"">>

NewlineIndent(level) == <<"\n">> \o Spaces(Indent * level)

RECURSIVE Dumps(_, _)
RECURSIVE DumpItems(_, _)
RECURSIVE DumpPairs(_, _)
\* items (already one level deeper), joined by "," and a newline-indent
DumpItems(l, level) ==
    IF Len(l) = 1 THEN Dumps(l[1], level)
    ELSE Dumps(l[1], level) \o <<",">> \o NewlineIndent(level) \o DumpItems(Tail(l), level)

DumpPairs(p, level) ==
    LET one == JsonStr(p[1][1]) \o <<":", " ">> \o Dumps(p[1][2], level)
    IN IF Len(p) = 1 THEN one
       ELSE one \o <<",">> \o NewlineIndent(level) \o DumpPairs(Tail(p), level)

Dumps(v, level) ==
    CASE v.t = "null" -> <<"n", "u", "l", "l">>
      [] v.t = "bool" -> IF v.b THEN <<"t", "r", "u", "e">> ELSE <<"f", "a", "l", "s", "e">>
      [] v.t = "int"  -> IntStr(v.n)
      [] v.t = "str"  -> JsonStr(v.s)
      [] v.t = "list" ->
            IF v.l = <<>> THEN <<"[", "]">>
            ELSE <<"[">> \o NewlineIndent(level + 1) \o DumpItems(v.l, level + 1)
                 \o NewlineIndent(level) \o <<"]">>
      [] v.t = "dict" ->
            IF v.p = <<>> THEN <<"{", "}">>
            ELSE <<"{">> \o NewlineIndent(level + 1) \o DumpPairs(v.p, level + 1)
                 \o NewlineIndent(level) \o <<"}">>

(* ---------------- repr(value), the !r conversion ---------------- *)
HasChar(s, c) == \E k \in 1..Len(s) : s[k] = c

ReprEscChar(c, q) ==
    IF c = q THEN <<"\\", c>>
    ELSE IF c = "\\" THEN <<"\\", "\\">>
    ELSE IF c = "\n" THEN <<"\\", "n">>
    ELSE <<c>>

RECURSIVE ReprEscape(_, _)
ReprEscape(s, q) ==
    IF s = <<>> THEN <<>> ELSE ReprEscChar(s[1], q) \o ReprEscape(Tail(s), q)

\* repr of a str: single quotes, unless it holds a ' and no "
ReprStr(s) ==
    LET q == IF HasChar(s, "'") /\ ~HasChar(s, "\"") THEN "\"" ELSE "'"
    IN <<q>> \o ReprEscape(s, q) \o <<q>>

Repr(v) ==
    CASE v.t = "null" -> <<"N", "o", "n", "e">>
      [] v.t = "bool" -> IF v.b THEN <<"T", "r", "u", "e">> ELSE <<"F", "a", "l", "s", "e">>
      [] v.t = "int"  -> IntStr(v.n)
      [] v.t = "str"  -> ReprStr(v.s)

(* ---------------- state ---------------- *)
VARIABLES
    pc,        \* the statement the script is at
    data,      \* line 5: the bytes read from the file
    raw,       \* line 8: the decompressed bytes
    session,   \* line 9: the parsed document (a tagged JSON value)
    i,         \* line 12: index of the window being reported
    j,         \* line 16: ordinal of the tab being reported
    entry,     \* line 17: the active entry of the current tab
    out,       \* standard output: one record per print call
    err,       \* the uncaught exception that ended the run, or "none"
    first      \* outcome of a completed earlier run on a related input
vars == <<pc, data, raw, session, i, j, entry, out, err, first>>

NoRun == [set |-> FALSE]

(* ---------------- the documents the reporter is run on ---------------- *)
Absent == [has |-> FALSE]
Some(x) == [has |-> TRUE, v |-> x]
Field(k, o) == IF o.has THEN k :> o.v ELSE <<>>

Null == [t |-> "null"]
JInt(n) == [t |-> "int", n |-> n]
JStr(s) == [t |-> "str", s |-> s]
JList(l) == [t |-> "list", l |-> l]
JDict(p) == [t |-> "dict", p |-> p]

\* a text of n characters that differs from each of its proper suffixes
Text(n, seed) == [k \in 1..n |-> <<"a", "b", "c">>[((k + seed) % 3) + 1]]

UrlLens == {0, 1} \cup ((UrlCut - 1)..(UrlCut + MaxOver))
EntryShapes == {<<>>} \cup {[url |-> Text(n, 0)] : n \in UrlLens}
History(n) == [k \in 1..n |-> [url |-> Text(k + 1, k)]]
EntriesOpts ==
    {Absent, Some(<<>>)} \cup {Some(<<e>>) : e \in EntryShapes}
        \cup {Some(History(n)) : n \in 2..MaxEntries}
IndexOpts == {Absent} \cup {Some(x) : x \in (0 - MaxIndex)..MaxIndex}
GroupOpts ==
    {Absent, Some(Null), Some(JInt(7)), Some(JStr(<<"g", "1">>)),
     Some(JStr(<<"M", "I", "S", "S", "I", "N", "G">>)), Some(JStr(<<"a", "'">>))}

MkTab(e, x, g) == Field("entries", e) @@ Field("index", x) @@ Field("group", g)

TabShapes ==
    {MkTab(e, x, Absent) : e \in EntriesOpts, x \in IndexOpts}
        \cup {MkTab(e, Some(1), g) : e \in {Absent, Some(History(2))}, g \in GroupOpts}
BaseTabs == {MkTab(Some(History(2)), Some(2), Some(JStr(<<"g", "1">>))), MkTab(Absent, Absent, Absent)}
TabLists ==
    {<<>>} \cup {[k \in 1..n |-> IF k = p THEN s ELSE b] :
                    n \in 1..MaxTabs, p \in 1..MaxTabs, s \in TabShapes, b \in BaseTabs}

GroupsOpts ==
    {Absent, Some(JList(<<>>)), Some(Null),
     Some(JList(<<JDict(<< <<<<"i", "d">>, JStr(<<"g", "1">>)>>, <<<<"n">>, JInt(12)>> >>), JDict(<<>>)>>))}
        \cup {Some(JList(<<JStr(Text(n, 0))>>)) : n \in (GroupsCut - 9)..(GroupsCut - 8 + MaxOver)}

MkWin(g, t) == Field("groups", g) @@ Field("tabs", t)

FewTabLists ==
    {Absent, Some(<<>>), Some([k \in 1..2 |-> MkTab(Some(History(2)), Some(k), Absent)]),
     Some([k \in 1..MaxTabs |-> MkTab(Some(History(2)), Some(1), Some(JInt(7)))])}
SmallWindows ==
    {MkWin(Absent, Absent),
     MkWin(Some(JList(<<>>)), Some([k \in 1..MaxTabs |-> MkTab(Some(History(2)), Some(1), Absent)])),
     MkWin(Some(JList(<<JInt(12)>>)), Some(<<MkTab(Absent, Absent, Absent), MkTab(Some(History(2)), Absent, Absent)>>)),
     MkWin(Absent, Some(<<MkTab(Some(History(2)), Some(0), Some(Null))>>)),
     MkWin(Some(Null), Some(<<MkTab(Some(<<>>), Absent, Absent), MkTab(Some(History(2)), Some(2), Absent)>>))}
Windows ==
    {MkWin(Absent, Some(t)) : t \in TabLists}
        \cup {MkWin(g, t) : g \in GroupsOpts, t \in FewTabLists}
WindowLists ==
    {<<>>} \cup {<<w>> : w \in Windows}
        \cup UNION {[1..n -> SmallWindows] : n \in 2..MaxWindows}
Sessions == {[t |-> "dict", d |-> Field("windows", o)] : o \in {Absent} \cup {Some(l) : l \in WindowLists}}

(* ---------------- the frame decoder, line 8 ---------------- *)
Failed == [ok |-> FALSE]
Ok(v) == [ok |-> TRUE, v |-> v]

\* LZ4_decompress_safe on a source of at most 8 bytes: so near the end of the
\* input every sequence is the last one, which is a token whose high nibble
\* counts the literals that follow and must end the input exactly and fit the
\* destination; the low nibble of a last token is not read
Lz4DecompressSafe(src, cap) ==
    IF cap = 0 THEN (IF Len(src) = 1 /\ src[1] = 0 THEN Ok(<<>>) ELSE Failed)
    ELSE IF Len(src) = 0 THEN Failed
    ELSE LET lit == src[1] \div 16
         IN IF lit = 15 \/ 1 + lit # Len(src) \/ lit > cap THEN Failed
            ELSE Ok(Tail(src))

\* lz4.block.decompress(source, uncompressed_size=n): n is the capacity of the
\* destination, the bytes actually written are returned
Lz4BlockDecompress(source, n) == Lz4DecompressSafe(source, n)

\* variant: the size is read from bytes [4,8)
FrameDecode_SizeInMagic(d) ==
    Lz4BlockDecompress(PySlice(d, HeaderLen, Len(d)),
                       FromBytesLE(PySlice(d, MagicLen - 4, MagicLen)))
\* variant: the payload is taken from byte 8 on
FrameDecode_PayloadAt8(d) ==
    Lz4BlockDecompress(PySlice(d, MagicLen, Len(d)),
                       FromBytesLE(PySlice(d, MagicLen, HeaderLen)))

\* line 8, the expression: the slices are clamped, they never fail
FrameDecode(d) ==
    Lz4BlockDecompress(PySlice(d, HeaderLen, Len(d)),
                       FromBytesLE(PySlice(d, MagicLen, HeaderLen)))

(* ---------------- json.loads, line 9 ---------------- *)
\* Characters of the modelled documents: whitespace, digits, brackets, braces,
\* comma; no other character of the modelled files begins a JSON value.
IsWs(b) == b \in {32, 9, 10, 13}
IsDigit(b) == b >= 48 /\ b <= 57
At(s, p) == IF p <= Len(s) THEN s[p] ELSE -1

RECURSIVE SkipWs(_, _)
SkipWs(s, p) == IF IsWs(At(s, p)) THEN SkipWs(s, p + 1) ELSE p

RECURSIVE ScanDigits(_, _, _)
ScanDigits(s, p, acc) ==
    IF IsDigit(At(s, p)) THEN ScanDigits(s, p + 1, 10 * acc + (s[p] - 48))
    ELSE [ok |-> TRUE, v |-> JInt(acc), p |-> p]

RECURSIVE ScanOnce(_, _)
RECURSIVE ScanArray(_, _, _)
\* the elements of an array, from the first byte of an element
ScanArray(s, p, acc) ==
    LET e == ScanOnce(s, p)
    IN IF ~e.ok THEN [ok |-> FALSE]
       ELSE LET q == SkipWs(s, e.p)
            IN IF At(s, q) = 93 THEN [ok |-> TRUE, v |-> JList(Append(acc, e.v)), p |-> q + 1]
               ELSE IF At(s, q) = 44 THEN ScanArray(s, SkipWs(s, q + 1), Append(acc, e.v))
               ELSE [ok |-> FALSE]

\* one JSON value starting exactly at p
ScanOnce(s, p) ==
    LET b == At(s, p)
    IN IF b = 123 THEN
            (IF At(s, SkipWs(s, p + 1)) = 125
             THEN [ok |-> TRUE, v |-> [t |-> "dict", d |-> <<>>], p |-> SkipWs(s, p + 1) + 1]
             ELSE [ok |-> FALSE])
       ELSE IF b = 91 THEN
            (IF At(s, SkipWs(s, p + 1)) = 93
             THEN [ok |-> TRUE, v |-> JList(<<>>), p |-> SkipWs(s, p + 1) + 1]
             ELSE ScanArray(s, SkipWs(s, p + 1), <<>>))
       ELSE IF b = 48 THEN [ok |-> TRUE, v |-> JInt(0), p |-> p + 1]
       ELSE IF IsDigit(b) THEN ScanDigits(s, p, 0)
       ELSE [ok |-> FALSE]

\* json.detect_encoding(b), for bytes without a byte-order mark
DetectEncoding(b) ==
    IF Len(b) >= 4 THEN
        (IF b[1] = 0 THEN (IF b[2] # 0 THEN "utf-16-be" ELSE "utf-32-be")
         ELSE IF b[2] = 0 THEN (IF b[3] # 0 \/ b[4] # 0 THEN "utf-16-le" ELSE "utf-32-le")
         ELSE "utf-8")
    ELSE IF Len(b) = 2 THEN
        (IF b[1] = 0 THEN "utf-16-be" ELSE IF b[2] = 0 THEN "utf-16-le" ELSE "utf-8")
    ELSE "utf-8"

\* the code unit of w bytes that starts at position p
RECURSIVE UnitBE(_, _, _)
UnitBE(b, p, w) == IF w = 0 THEN 0 ELSE 256 * UnitBE(b, p, w - 1) + b[p + w - 1]
UnitLE(b, p, w) == FromBytesLE(SubSeq(b, p, p + w - 1))

\* b.decode(encoding) for bytes below 128: the code points, or a failure on
\* truncated data or a code point past U+10FFFF
DecodeText(b) ==
    LET enc == DetectEncoding(b)
        w == IF enc = "utf-8" THEN 1 ELSE IF enc \in {"utf-16-be", "utf-16-le"} THEN 2 ELSE 4
        cps == [k \in 1..(Len(b) \div w) |->
                   IF enc \in {"utf-16-le", "utf-32-le"} THEN UnitLE(b, w * (k - 1) + 1, w)
                   ELSE UnitBE(b, w * (k - 1) + 1, w)]
    IN IF Len(b) % w # 0 \/ (\E k \in 1..Len(cps) : cps[k] > 1114111) THEN Failed
       ELSE Ok(cps)

\* json.loads(raw): the bytes are decoded, then hold one value surrounded by
\* whitespace only
JsonLoads(b) ==
    LET t == DecodeText(b)
    IN IF ~t.ok THEN [ok |-> FALSE, e |-> "UnicodeDecodeError"]
       ELSE LET r == ScanOnce(t.v, SkipWs(t.v, 1))
            IN IF r.ok /\ SkipWs(t.v, r.p) = Len(t.v) + 1 THEN Ok(r.v)
               ELSE [ok |-> FALSE, e |-> "JSONDecodeError"]

(* ---------------- the files the decoder is run on ---------------- *)
MozMagic == <<109, 111, 122, 76, 122, 52, 48, 0>>
Magics == {MozMagic, [k \in 1..MagicLen |-> 0], [k \in 1..MagicLen |-> 1]}
SizeFields == {<<u, 0, 0, 0>> : u \in 0..MaxPayload} \cup {<<0, 1, 0, 0>>}
PayloadBytes == {0, 16, 32, 49, 91, 93, 123, 125}
Payloads == UNION {[1..n -> PayloadBytes] : n \in 0..MaxPayload}
Frames ==
    {MozMagic \o z \o p : z \in SizeFields, p \in Payloads}
        \cup {SubSeq(MozMagic \o z, 1, n) : z \in SizeFields, n \in 0..(HeaderLen - 1)}

Unparsed == [t |-> "unset"]

(* ---------------- the reporter, lines 12-19 ---------------- *)
WindowsOf(s) == PyGet(s.d, "windows", <<>>)
Win == WindowsOf(session)[i + 1]
TabsOf(w) == PyGet(w, "tabs", <<>>)
\* variant: no limit on the tabs reported
FirstTabs_All(w) == TabsOf(w)
\* variant: the limit is off by one
FirstTabs_Six(w) == PySlice(TabsOf(w), 0, TabLimit + 1)
FirstTabs(w) == PySlice(TabsOf(w), 0, TabLimit)
Tab == FirstTabs(Win)[j + 1]

\* tab.get('entries') is truthy
HasEntries(t) == "entries" \in DOMAIN t /\ t.entries # <<>>

Fail(e) == pc' = "failed" /\ err' = e

\* line 12: for i, win in enumerate(session.get('windows', []))
ForWindow ==
    /\ pc = "windows"
    /\ IF session.t # "dict" THEN Fail("AttributeError")
       ELSE /\ pc' = IF i < Len(WindowsOf(session)) THEN "delim" ELSE "done"
            /\ err' = err
    /\ UNCHANGED <<data, raw, session, i, j, entry, out, first>>

\* variant: windows numbered from 1
PrintWindow_OneBased ==
    /\ pc = "delim"
    /\ out' = Append(out, [kind |-> "window", i |-> i + 1])
    /\ pc' = "groups"
    /\ UNCHANGED <<data, raw, session, i, j, entry, err, first>>

\* line 13: print(f'=== Window {i} ===')
PrintWindow ==
    /\ pc = "delim"
    /\ out' = Append(out, [kind |-> "window", i |-> i])
    /\ pc' = "groups"
    /\ UNCHANGED <<data, raw, session, i, j, entry, err, first>>

\* variant: the rendering is cut one character early
GroupsText_Short(w) == PySlice(Dumps(PyGet(w, "groups", JList(<<>>)), 0), 0, GroupsCut - 1)
GroupsText(w) == PySlice(Dumps(PyGet(w, "groups", JList(<<>>)), 0), 0, GroupsCut)

\* line 14: print(f'Groups: {json.dumps(win.get("groups", []), indent=2)[:2000]}')
PrintGroups ==
    /\ pc = "groups"
    /\ out' = Append(out, [kind |-> "groups", text |-> GroupsText(Win)])
    /\ pc' = "blank"
    /\ UNCHANGED <<data, raw, session, i, j, entry, err, first>>

\* line 15: print()
PrintBlank ==
    /\ pc = "blank"
    /\ out' = Append(out, [kind |-> "blank"])
    /\ pc' = "tabs"
    /\ UNCHANGED <<data, raw, session, i, j, entry, err, first>>

\* line 16: for j, tab in enumerate(win.get('tabs', [])[:5])
ForTab ==
    /\ pc = "tabs"
    /\ pc' = IF j < Len(FirstTabs(Win)) THEN "entry" ELSE "total"
    /\ UNCHANGED <<data, raw, session, i, j, entry, out, err, first>>

\* variant: the output printed so far is lost when the selection fails
SelectEntry_Suppress ==
    /\ pc = "entry"
    /\ IF ~HasEntries(Tab) THEN /\ entry' = <<>>
                                /\ pc' = "tabline"
                                /\ err' = err
                                /\ out' = out
       ELSE IF "index" \notin DOMAIN Tab THEN Fail("KeyError") /\ entry' = entry /\ out' = <<>>
       ELSE IF ~PyIndexOK(Tab.entries, Tab.index - 1)
            THEN Fail("IndexError") /\ entry' = entry /\ out' = <<>>
       ELSE /\ entry' = PyItem(Tab.entries, Tab.index - 1)
            /\ pc' = "tabline"
            /\ err' = err
            /\ out' = out
    /\ UNCHANGED <<data, raw, session, i, j, first>>

\* line 17: entry = tab['entries'][tab['index']-1] if tab.get('entries') else {}
SelectEntry ==
    /\ pc = "entry"
    /\ IF ~HasEntries(Tab) THEN /\ entry' = <<>>
                                /\ pc' = "tabline"
                                /\ err' = err
       ELSE IF "index" \notin DOMAIN Tab THEN Fail("KeyError") /\ entry' = entry
       ELSE IF ~PyIndexOK(Tab.entries, Tab.index - 1) THEN Fail("IndexError") /\ entry' = entry
       ELSE /\ entry' = PyItem(Tab.entries, Tab.index - 1)
            /\ pc' = "tabline"
            /\ err' = err
    /\ UNCHANGED <<data, raw, session, i, j, out, first>>

\* variant: the marker also replaces a null group
GroupText_Falsy(t) ==
    IF "group" \in DOMAIN t /\ t.group.t # "null" THEN Repr(t.group)
    ELSE Repr(JStr(<<"M", "I", "S", "S", "I", "N", "G">>))
GroupText(t) == Repr(PyGet(t, "group", JStr(<<"M", "I", "S", "S", "I", "N", "G">>)))
\* variant: the url is cut one character early
UrlText_Short(e) == PySlice(PyGet(e, "url", <<>>), 0, UrlCut - 1)
UrlText(e) == PySlice(PyGet(e, "url", <<>>), 0, UrlCut)

\* line 18: print(f'Tab {j}: group={tab.get("group", "MISSING")!r}, url={entry.get("url", "")[:80]}')
PrintTab ==
    /\ pc = "tabline"
    /\ out' = Append(out, [kind |-> "tab", j |-> j, group |-> GroupText(Tab), url |-> UrlText(entry)])
    /\ j' = j + 1
    /\ pc' = "tabs"
    /\ UNCHANGED <<data, raw, session, i, entry, err, first>>

\* line 19: print(f'... total {len(win.get("tabs", []))} tabs')
PrintTotal ==
    /\ pc = "total"
    /\ out' = Append(out, [kind |-> "total", n |-> Len(TabsOf(Win))])
    /\ i' = i + 1
    /\ j' = 0
    /\ pc' = "windows"
    /\ UNCHANGED <<data, raw, session, entry, err, first>>

Report == ForWindow \/ PrintWindow \/ PrintGroups \/ PrintBlank \/ ForTab
            \/ SelectEntry \/ PrintTab \/ PrintTotal

\* the state after line 9 for a document that parsed to a mapping
Init ==
    /\ pc = "windows"
    /\ data = <<>>
    /\ raw = <<>>
    /\ session \in Sessions
    /\ i = 0
    /\ j = 0
    /\ entry = <<>>
    /\ out = <<>>
    /\ err = "none"
    /\ first = NoRun

Next == Report
Spec == Init /\ [][Next]_vars

(* ---------------- the whole script, from the file's bytes ---------------- *)
\* line 8: raw = lz4.block.decompress(data[12:], uncompressed_size=int.from_bytes(data[8:12], 'little'))
Decode ==
    /\ pc = "decode"
    /\ LET r == FrameDecode(data)
       IN IF r.ok THEN /\ raw' = r.v
                       /\ pc' = "parse"
                       /\ err' = err
          ELSE Fail("LZ4BlockError") /\ raw' = raw
    /\ UNCHANGED <<data, session, i, j, entry, out, first>>

\* line 9: session = json.loads(raw)
Parse ==
    /\ pc = "parse"
    /\ LET r == JsonLoads(raw)
       IN IF r.ok THEN /\ session' = r.v
                       /\ pc' = "windows"
                       /\ err' = err
          ELSE Fail(r.e) /\ session' = session
    /\ UNCHANGED <<data, raw, i, j, entry, out, first>>

Ended == pc \in {"done", "failed"}
Outcome == [set |-> TRUE, pc |-> pc, err |-> err, out |-> out, raw |-> raw, session |-> session]

\* a second run of the script, on a file that differs from the first one in
\* its magic bytes only
RerunMagic ==
    /\ Ended /\ ~first.set
    /\ Len(data) >= HeaderLen
    /\ \E m \in Magics : /\ m # SubSeq(data, 1, MagicLen)
                         /\ data' = m \o SubSeq(data, MagicLen + 1, Len(data))
    /\ first' = Outcome
    /\ pc' = "decode" /\ raw' = <<>> /\ session' = Unparsed
    /\ i' = 0 /\ j' = 0 /\ entry' = <<>> /\ out' = <<>> /\ err' = "none"

InitFrame ==
    /\ pc = "decode"
    /\ data \in Frames
    /\ raw = <<>>
    /\ session = Unparsed
    /\ i = 0
    /\ j = 0
    /\ entry = <<>>
    /\ out = <<>>
    /\ err = "none"
    /\ first = NoRun

NextFrame == Decode \/ Parse \/ ForWindow \/ RerunMagic
SpecFrame == InitFrame /\ [][NextFrame]_vars

(* ---------------- two runs on documents that differ past the fifth tab ---------------- *)
TailTabs ==
    {MkTab(e, x, g) : e \in {Absent, Some(History(2))},
                      x \in {Absent, Some(0), Some(MaxIndex)},
                      g \in {Absent, Some(Null)}}

\* the window with every tab at position >= 5 replaced by t
WithTail(w, t) == [w EXCEPT !.tabs = [k \in 1..Len(@) |-> IF k > TabLimit THEN t ELSE @[k]]]

RerunTail ==
    /\ Ended /\ ~first.set
    /\ \E n \in 1..Len(WindowsOf(session)) : \E t \in TailTabs :
          /\ Len(TabsOf(WindowsOf(session)[n])) > TabLimit
          /\ session' = [session EXCEPT !.d.windows[n] = WithTail(@, t)]
          /\ session' # session
    /\ first' = Outcome
    /\ pc' = "windows"
    /\ i' = 0 /\ j' = 0 /\ entry' = <<>> /\ out' = <<>> /\ err' = "none"
    /\ UNCHANGED <<data, raw>>

NextTail == Report \/ RerunTail
SpecTail == Init /\ [][NextTail]_vars

(* ======================================================================= *)
(* Properties                                                              *)
(* ======================================================================= *)
Wins == WindowsOf(session)
NTabs(w) == IF "tabs" \in DOMAIN w THEN Len(w.tabs) ELSE 0
Shown(w) == IF NTabs(w) < 5 THEN NTabs(w) ELSE 5
BlockLen(w) == 4 + Shown(w)

\* 1-based number of the window whose block line k of the output belongs to
WinLines(k) == Cardinality({m \in 1..k : out[m].kind = "window"})
TabLinesOf(n) == {k \in 1..Len(out) : out[k].kind = "tab" /\ WinLines(k) = n}
\* the tab of the document that tab line k reports
LineTab(k) == Wins[WinLines(k)].tabs[out[k].j + 1]

\* position in the output of the first line of the block of window n
RECURSIVE BlockStart(_)
BlockStart(n) == IF n = 1 THEN 1 ELSE BlockStart(n - 1) + BlockLen(Wins[n - 1])

\* line k is the line that the fixed block layout puts at position k
LineOK(k) ==
    \E n \in 1..Len(Wins) :
        LET o == k - BlockStart(n)
            m == Shown(Wins[n])
        IN /\ o >= 0 /\ o < BlockLen(Wins[n])
           /\ CASE o = 0 -> out[k].kind = "window" /\ out[k].i = n - 1
                [] o = 1 -> out[k].kind = "groups"
                [] o = 2 -> out[k].kind = "blank"
                [] o = 3 + m -> out[k].kind = "total"
                [] OTHER -> out[k].kind = "tab" /\ out[k].j = o - 3

SelectionFailed == pc = "failed" /\ err \in {"KeyError", "IndexError"}
NonEmptyEntries(t) == "entries" \in DOMAIN t /\ Len(t.entries) > 0

(* ---------------- C1 ---------------- *)
\* C1 as stated: whenever the active entry of a tab with a non-empty
\* `entries` list has been selected, `index` is present and
\* 1 <= index <= len(entries); every other case fails with an index error.
C1_Original ==
    /\ (pc = "tabline" /\ NonEmptyEntries(Tab))
          => ("index" \in DOMAIN Tab /\ Tab.index >= 1 /\ Tab.index <= Len(Tab.entries))
    /\ (SelectionFailed /\ NonEmptyEntries(Tab)) => err = "IndexError"

\* C1 amended: for a tab among the first five with a non-empty `entries`
\* list, selection fails with a key error iff `index` is absent and with an
\* index error iff index > len(entries) or index < 1 - len(entries); it picks
\* entries[index-1] for 1 <= index <= len(entries) and, counting from the end,
\* entries[len(entries)+index-1] for 1 - len(entries) <= index <= 0; a tab
\* line is printed for the tab exactly when selection did not fail.
C1_Selection ==
    ((pc = "tabline" \/ SelectionFailed) /\ NonEmptyEntries(Tab)) =>
        LET n == Len(Tab.entries)
            present == "index" \in DOMAIN Tab
        IN /\ (pc = "failed" /\ err = "KeyError") <=> ~present
           /\ (pc = "failed" /\ err = "IndexError")
                 <=> (present /\ (Tab.index > n \/ Tab.index < 1 - n))
           /\ (pc = "tabline" /\ Tab.index >= 1) => entry = Tab.entries[Tab.index]
           /\ (pc = "tabline" /\ Tab.index <= 0) => entry = Tab.entries[n + Tab.index]
           /\ Cardinality(TabLinesOf(i + 1)) = j
           /\ \A k \in TabLinesOf(i + 1) : out[k].j < j

C1_Witness ==
    /\ pc = "tabs" /\ j >= 1 /\ out[Len(out)].kind = "tab"
    /\ LET t == FirstTabs(Win)[j]
       IN NonEmptyEntries(t) /\ "index" \in DOMAIN t /\ t.index = 0

(* ---------------- C2 ---------------- *)
\* C2 as stated: when the run has ended, every window whose block was begun
\* has exactly min(5, len(tabs)) tab lines and a total line showing len(tabs).
C2_Original ==
    Ended => \A n \in 1..WinLines(Len(out)) :
                /\ Cardinality(TabLinesOf(n)) = Shown(Wins[n])
                /\ \E k \in 1..Len(out) :
                      out[k].kind = "total" /\ WinLines(k) = n /\ out[k].n = NTabs(Wins[n])

\* C2 amended: for every window whose total-count line is printed (that is,
\* whose first five tabs all had their active entry selected without
\* failure), the tab lines printed are exactly min(5, len(tabs)), with
\* ordinals 0..min(5,len)-1 in order right before the total line, and the
\* total line shows the true len(tabs) (0 when `tabs` is absent).
C2_TabLines ==
    \A k \in 1..Len(out) :
        out[k].kind = "total" =>
            LET w == Wins[WinLines(k)]
                m == Shown(w)
            IN /\ out[k].n = NTabs(w)
               /\ Cardinality(TabLinesOf(WinLines(k))) = m
               /\ \A q \in 0..(m - 1) :
                     out[k - m + q].kind = "tab" /\ out[k - m + q].j = q
               /\ out[k - m - 1].kind = "blank"

C2_Witness ==
    \E k \in 1..Len(out) :
        out[k].kind = "total" /\ out[k].n > 5 /\ WinLines(k) = 2

(* ---------------- C3 ---------------- *)
WellFormedDoc ==
    \A n \in 1..Len(Wins) : \A k \in 1..NTabs(Wins[n]) :
        LET t == Wins[n].tabs[k]
        IN NonEmptyEntries(t)
              => ("index" \in DOMAIN t /\ t.index >= 1 /\ t.index <= Len(t.entries))

C4_Url ==
    /\ \A k \in 1..Len(out) :
          out[k].kind = "tab" =>
              LET t == LineTab(k)
                  u == out[k].url
              IN IF ~NonEmptyEntries(t) THEN u = <<>>
                 ELSE LET e == IF t.index >= 1 THEN t.entries[t.index]
                                ELSE t.entries[Len(t.entries) + t.index]
                      IN IF "url" \in DOMAIN e
                         THEN /\ Len(u) = (IF Len(e.url) < 80 THEN Len(e.url) ELSE 80)
                              /\ \A q \in 1..Len(u) : u[q] = e.url[q]
                         ELSE u = <<>>
    /\ SelectionFailed => NonEmptyEntries(Tab)
    /\ (pc = "tabline" /\ ~NonEmptyEntries(Tab)) => entry = <<>>

C4_Witness ==
    \E k \in 1..Len(out) :
        /\ out[k].kind = "tab" /\ Len(out[k].url) = 80
        /\ Len(LineTab(k).entries[1].url) = 81

(* ---------------- C5 ---------------- *)
\* C5: a run on a buffer of at least 12 bytes and a run on the same buffer
\* with other bytes at [0,8) end alike: same success or failure, same
\* exception, same decompressed bytes, same document, same output.
C5_MagicIgnored ==
    (first.set /\ Ended) =>
        /\ pc = first.pc /\ err = first.err /\ out = first.out
        /\ raw = first.raw /\ session = first.session

C5_Witness ==
    /\ first.set /\ pc = "done" /\ raw = <<123, 125>>
    /\ SubSeq(data, 1, 8) # MozMagic

(* ---------------- C6 ---------------- *)
\* C6 as stated: a buffer of fewer than 12 bytes fails as a slicing
\* (index) failure.
C6_Original == (Len(data) < 12 /\ pc = "failed") => err = "IndexError"

\* C6 amended: a buffer of fewer than 12 bytes (the empty file included)
\* fails at the frame-decoding step, not in a slice (slices of a short buffer
\* are short or empty, never an error) but in the decompression routine,
\* which rejects the empty payload; the document is never parsed and nothing
\* is printed.
C6_Truncated ==
    (Len(data) < 12 /\ pc # "decode") =>
        /\ pc = "failed" /\ err = "LZ4BlockError"
        /\ raw = <<>> /\ session = Unparsed /\ out = <<>>

C6_Witness == pc = "failed" /\ Len(data) = 11 /\ data[9] = 0

(* ---------------- C7 ---------------- *)
\* C7: the group of every tab line is a debug representation: 'MISSING' in
\* quotes when the tab has no `group`; None for an explicit null; the digits
\* of an integer; the text in quotes for a string.
C7_Group ==
    \A k \in 1..Len(out) :
        out[k].kind = "tab" =>
            LET t == LineTab(k)
                g == out[k].group
            IN IF "group" \notin DOMAIN t THEN g = <<"'", "M", "I", "S", "S", "I", "N", "G", "'">>
               ELSE /\ t.group.t = "null" => g = <<"N", "o", "n", "e">>
                    /\ t.group.t = "int" => g = IntStr(t.group.n)
                    /\ (t.group.t = "str" /\ ~HasChar(t.group.s, "'"))
                          => g = <<"'">> \o t.group.s \o <<"'">>
                    /\ (t.group.t = "str" /\ HasChar(t.group.s, "'"))
                          => g = <<"\"">> \o t.group.s \o <<"\"">>

C7_Witness ==
    \E k \in 1..Len(out) :
        /\ out[k].kind = "tab" /\ "group" \in DOMAIN LineTab(k)
        /\ LineTab(k).group.t = "null"

(* ---------------- C8 ---------------- *)
\* C8: the groups text of every window is the first min(2000, len(R))
\* characters of R, the indented rendering of its `groups`; for absent or
\* empty `groups` it is the whole empty-list rendering "[]".
C8_Groups ==
    \A k \in 1..Len(out) :
        out[k].kind = "groups" =>
            LET w == Wins[WinLines(k)]
                x == out[k].text
            IN IF "groups" \notin DOMAIN w THEN x = <<"[", "]">>
               ELSE IF w.groups = [t |-> "list", l |-> <<>>] THEN x = <<"[", "]">>
               ELSE LET R == Dumps(w.groups, 0)
                    IN /\ Len(x) = (IF Len(R) < 2000 THEN Len(R) ELSE 2000)
                       /\ \A q \in 1..Len(x) : x[q] = R[q]

C8_Witness ==
    \E k \in 1..Len(out) :
        /\ out[k].kind = "groups" /\ Len(out[k].text) = 2000
        /\ Len(Wins[WinLines(k)].groups.l[1].s) = 1993

(* ---------------- C9 ---------------- *)
\* C9: when the selection fails at tab j of window i the output holds the
\* complete blocks of windows 0..i-1, then window i's delimiter, groups and
\* blank line and the tab lines 0..j-1, and nothing else; after the failure
\* the run stays failed and the output never changes.
C9_FailFast ==
    /\ [](SelectionFailed =>
            /\ Len(out) = BlockStart(i + 1) + 2 + j
            /\ \A k \in 1..Len(out) : LineOK(k)
            /\ \A k \in 1..Len(out) : out[k].kind = "total" => WinLines(k) <= i)
    /\ [][pc = "failed" => (pc' = "failed" /\ out' = out)]_vars

C9_Witness == SelectionFailed /\ i = 1 /\ j = 1 /\ Len(out) = 8

(* ---------------- C10 ---------------- *)
\* C10: a run on a document and a run on the same document with the tabs at
\* positions >= 5 of a window replaced (same number of them) end alike: same
\* success or failure, same exception, same output; and a selection never
\* fails at a position >= 5.
C10_TailIgnored ==
    /\ (first.set /\ Ended) => (pc = first.pc /\ err = first.err /\ out = first.out)
    /\ SelectionFailed => j < 5

C10_Witness ==
    /\ first.set /\ pc = "done" /\ Len(Wins) = 1 /\ NTabs(Wins[1]) = 6
    /\ NonEmptyEntries(Wins[1].tabs[6]) /\ "index" \notin DOMAIN Wins[1].tabs[6]
    /\ "index" \in DOMAIN first.session.d.windows[1].tabs[6]

====
